---- MODULE Spec2Model ----
(***************************************************************************)
(* A model of adafruit_requests.py: the Response object (incremental       *)
(* scanner over a growable receive buffer, header parser, content-length   *)
(* and chunked body framing, drain on close) and the Session socket pool.  *)
(*                                                                         *)
(* Python code runs to the next transport read; a transport read returns   *)
(* any number of bytes between 1 and the number asked for (0 only at end   *)
(* of stream).  Each basic block of the source between two transport reads *)
(* or calls is one action; `stack` holds the Python call stack.            *)
(*                                                                         *)
(* The caller either constructs one Response on a socket of its own, on    *)
(* which the server's bytes are under way, or issues requests through a    *)
(* Session, whose sockets receive the server's answer to each request.     *)
(***************************************************************************)
EXTENDS Integers, Sequences, FiniteSets, TLC

VARIABLES
    resp,            \* the Response objects created so far (index = identity)
    sockets,         \* the transport handles created so far (index = identity)
    open_sockets,    \* Session._open_sockets: key -> socket
    socket_free,     \* Session._socket_free: socket -> BOOLEAN
    last_response,   \* Session._last_response (0 is None)
    stack,           \* the Python call stack, innermost frame last
    ret,             \* the value the last finished call returned
    gen,             \* the caller's iter_content generator object
    result,          \* outcome of the caller's last finished call (none once a
                     \* request() has started)
    yielded,         \* the chunks the caller's generator has yielded
    scen,            \* what the server sends (the expected decoding of the wire)
    usage,           \* the kinds of call the caller has made on the response
    acquired         \* the calls of Session._get_socket so far, with their outcome

data == <<resp, sockets, open_sockets, socket_free, last_response>>
ctl == <<stack, ret, gen, result, yielded>>
env == <<scen, usage, acquired>>
vars == <<resp, sockets, open_sockets, socket_free, last_response,
          stack, ret, gen, result, yielded, scen, usage, acquired>>

----------------------------------------------------------------------------
(* Bounds of the model *)

\* iter_content is called with chunk_size in 1..MaxChunkSize
MaxChunkSize == 2

\* a Session reaches _get_socket at most MaxRequests times
MaxRequests == 3

----------------------------------------------------------------------------
(* Python values *)

None == <<>>
Some(x) == <<x>>
The(x) == x[1]

SP == " "
CR == "\r"
LF == "\n"
COLON == ":"
SEMI == ";"
\* the zero byte a fresh bytearray holds; also stands for every stale byte
\* above the valid length of the receive buffer, which the code never reads
NUL == "NUL"
CRLF == <<CR, LF>>
COLON_SP == <<COLON, SP>>

Min(S) == CHOOSE x \in S : \A y \in S : x <= y
Smaller(a, b) == IF a < b THEN a ELSE b

\* buf[a:b] of Python (0-based, end exclusive)
Slice(buf, a, b) == SubSeq(buf, a + 1, b)

\* the bytes `d` followed by zero bytes up to length `cap`
Pad(d, cap) == d \o [i \in 1..(cap - Len(d)) |-> NUL]

\* bytearray.find(sub, start, end): lowest index of sub within buf[start:end], or -1
find(buf, sub, start, end) ==
    LET n == Len(sub)
        hits == {i \in start..(end - n) : \A j \in 1..n : buf[i + j] = sub[j]}
    IN  IF hits = {} THEN -1 ELSE Min(hits)

UPPER == <<"A","B","C","D","E","F","G","H","I","J","K","L","M",
           "N","O","P","Q","R","S","T","U","V","W","X","Y","Z">>
LOWER == <<"a","b","c","d","e","f","g","h","i","j","k","l","m",
           "n","o","p","q","r","s","t","u","v","w","x","y","z">>

\* str.lower()
lower(s) ==
    [i \in 1..Len(s) |->
        IF \E k \in 1..26 : UPPER[k] = s[i]
        THEN LOWER[CHOOSE k \in 1..26 : UPPER[k] = s[i]]
        ELSE s[i]]

DIGITS == <<"0","1","2","3","4","5","6","7","8","9","a","b","c","d","e","f">>
WHITESPACE == {SP, CR, LF, "\t"}

DigitVal(c) ==
    LET l == lower(<<c>>)[1]
    IN  IF \E k \in 1..16 : DIGITS[k] = l
        THEN (CHOOSE k \in 1..16 : DIGITS[k] = l) - 1
        ELSE 16

RECURSIVE LStrip(_)
LStrip(s) == IF s # <<>> /\ s[1] \in WHITESPACE THEN LStrip(Tail(s)) ELSE s
RECURSIVE RStrip(_)
RStrip(s) ==
    IF s # <<>> /\ s[Len(s)] \in WHITESPACE
    THEN RStrip(SubSeq(s, 1, Len(s) - 1)) ELSE s

RECURSIVE Value(_, _)
Value(s, base) ==
    IF s = <<>> THEN 0
    ELSE Value(SubSeq(s, 1, Len(s) - 1), base) * base + DigitVal(s[Len(s)])

\* int(tok, base) on bytes: surrounding whitespace is skipped, then one or
\* more digits of the base are required; anything else is a ValueError.
\* (Signs, underscores and base prefixes do not occur in the model's bytes.)
int(tok, base) ==
    LET s == RStrip(LStrip(tok))
    IN  IF s = <<>> \/ \E i \in 1..Len(s) : DigitVal(s[i]) >= base
        THEN [ok |-> FALSE, val |-> 0]
        ELSE [ok |-> TRUE, val |-> Value(s, base)]

RECURSIVE Dec(_)
\* "%d" % n
Dec(n) == IF n < 10 THEN <<DIGITS[n + 1]>> ELSE Dec(n \div 10) \o <<DIGITS[(n % 10) + 1]>>

RECURSIVE Hex(_)
\* the hexadecimal chunk-size token of n
Hex(n) == IF n < 16 THEN <<DIGITS[n + 1]>> ELSE Hex(n \div 16) \o <<DIGITS[(n % 16) + 1]>>

RECURSIVE Concat(_)
Concat(ss) == IF ss = <<>> THEN <<>> ELSE Head(ss) \o Concat(Tail(ss))

----------------------------------------------------------------------------
(* The server side: what is put on the wire for one response.  A scenario  *)
(* records the status, the headers, the framing and the payload, and Wire  *)
(* renders it in the wire format the parser consumes.                      *)

Bytes(n, c) == [i \in 1..n |-> c]

CONTENT_LENGTH == <<"c","o","n","t","e","n","t","-","l","e","n","g","t","h">>
TRANSFER_ENCODING == <<"t","r","a","n","s","f","e","r","-","e","n","c","o","d","i","n","g">>
CHUNKED == <<"c","h","u","n","k","e","d">>
LOCATION == <<"l","o","c","a","t","i","o","n">>

\* spellings a server may use
Content_Length == <<"C","o","n","t","e","n","t","-","L","e","n","g","t","h">>
Transfer_Encoding == <<"T","r","a","n","s","f","e","r","-","E","n","c","o","d","i","n","g">>

Line(h) == h[1] \o COLON_SP \o h[2] \o CRLF

RECURSIVE Lines(_)
Lines(hs) == IF hs = <<>> THEN <<>> ELSE Line(Head(hs)) \o Lines(Tail(hs))

\* one chunk: "<hex-size>[;ext]\r\n" data "\r\n"
ChunkBytes(c) ==
    Hex(Len(c.data)) \o (IF c.ext = <<>> THEN <<>> ELSE <<SEMI>> \o c.ext) \o CRLF
    \o c.data \o CRLF

RECURSIVE ChunksBytes(_)
ChunksBytes(cs) == IF cs = <<>> THEN <<>> ELSE ChunkBytes(Head(cs)) \o ChunksBytes(Tail(cs))

RECURSIVE ChunksData(_)
ChunksData(cs) == IF cs = <<>> THEN <<>> ELSE Head(cs).data \o ChunksData(Tail(cs))

\* the headers of a scenario, the framing header last
Headers(sc) ==
    sc.hdrs \o
    (CASE sc.framing = "length" -> << <<sc.name, Dec(Len(sc.payload))>> >>
       [] sc.framing = "chunked" -> << <<sc.name, CHUNKED>> >>
       [] OTHER -> <<>>)

Preamble(sc) ==
    <<"H">> \o <<SP>> \o Dec(sc.status) \o <<SP>> \o sc.reason \o CRLF
    \o Lines(Headers(sc)) \o CRLF

\* the framed body as sent
Body(sc) ==
    CASE sc.framing = "length" -> sc.payload
      [] sc.framing = "chunked" ->
            ChunksBytes(sc.chunks) \o <<"0">> \o CRLF \o Lines(sc.trailers) \o CRLF
      [] OTHER -> <<>>

\* the body a reader must obtain
Payload(sc) == IF sc.framing = "chunked" THEN ChunksData(sc.chunks) ELSE sc.payload

\* everything the transport will deliver: this response, then sc.tail (the
\* first bytes of whatever follows it on the connection)
Wire(sc) == Preamble(sc) \o Body(sc) \o sc.tail

Scenario(framing, name, hdrs, payload, chunks, trailers, tail, recv_into) ==
    [status |-> 200, reason |-> <<"O", "K">>, framing |-> framing, name |-> name,
     hdrs |-> hdrs, payload |-> payload, chunks |-> chunks, trailers |-> trailers,
     tail |-> tail, recv_into |-> recv_into]

NoScenario == Scenario("none", <<>>, <<>>, <<>>, <<>>, <<>>, <<>>, TRUE)
NEXT == <<"H", SP>>
Chunk(d, ext) == [data |-> d, ext |-> ext]

Scenarios == {
    Scenario("length", Content_Length, <<>>, <<"a","b","c">>, <<>>, <<>>, NEXT, TRUE),
    Scenario("length", CONTENT_LENGTH, <<>>, <<>>, <<>>, <<>>, <<>>, TRUE),
    Scenario("length", Content_Length, << <<<<"X">>, Bytes(65, "v")>> >>,
             <<"a">>, <<>>, <<>>, <<>>, FALSE),
    Scenario("chunked", Transfer_Encoding, <<>>, <<>>,
             <<Chunk(<<"a","b">>, <<>>), Chunk(<<"c">>, <<>>)>>, <<>>, NEXT, TRUE),
    Scenario("chunked", TRANSFER_ENCODING, <<>>, <<>>, <<>>, <<>>, <<>>, TRUE),
    Scenario("chunked", Transfer_Encoding, <<>>, <<>>,
             <<Chunk(<<"a","b">>, <<"q">>)>>, <<>>, <<>>, TRUE),
    Scenario("none", <<>>, << <<<<"A">>, <<"b">>>> >>, <<>>, <<>>, <<>>, <<>>, TRUE),
    Scenario("chunked", Transfer_Encoding, <<>>, <<>>,
             <<Chunk(<<"a","b">>, <<>>)>>, << <<Content_Length, <<"1">>>> >>, NEXT, TRUE),
    Scenario("chunked", Transfer_Encoding, <<>>, <<>>,
             <<Chunk(<<"a","b">>, <<>>)>>, << <<Transfer_Encoding, CHUNKED>> >>, NEXT, TRUE)
}

----------------------------------------------------------------------------
(* Control: the call stack *)

Top == stack[Len(stack)]
Rest == SubSeq(stack, 1, Len(stack) - 1)
At(fn, pc) == stack # <<>> /\ Top.fn = fn /\ Top.pc = pc
Idle == stack = <<>>

\* what the caller of the outermost call observes
Outcome(e, v) == [op |-> stack[1].fn, self |-> stack[1].self, exc |-> e, val |-> v]

\* the top frame continues as frame f
Goto(f) ==
    /\ stack' = Append(Rest, f)
    /\ ret' = None
    /\ UNCHANGED <<gen, result, yielded>>

\* the top frame continues as frame f after the calls in `frames` return
Call(f, frames) ==
    /\ stack' = Append(Rest, f) \o frames
    /\ ret' = None
    /\ UNCHANGED <<gen, result, yielded>>

\* return v
Return(v) ==
    /\ stack' = Rest
    /\ ret' = IF Rest = <<>> THEN None ELSE v
    /\ result' = IF Rest = <<>> THEN Outcome("", v) ELSE result
    /\ UNCHANGED <<gen, yielded>>

\* raise e: no frame of the Response or of request() catches it; a generator
\* that an exception leaves is finished
Raise(e) ==
    /\ stack' = <<>>
    /\ ret' = None
    /\ result' = Outcome(e, None)
    /\ gen' = [gen EXCEPT !.state = IF @ = "running" THEN "finished" ELSE @]
    /\ UNCHANGED yielded

----------------------------------------------------------------------------
(* The transport *)

\* a read asking for up to n bytes returns k of them: at least one while the
\* stream has bytes, none at its end. The caller's own socket fragments the
\* stream in every way; a socket of the pool hands over what is there or one
\* byte less
Delivered(s, n) ==
    LET most == Smaller(n, Len(sockets[s].wire))
    IN  IF sockets[s].wire = <<>> THEN {0}
        ELSE IF sockets[s].peer # <<>> THEN {most - 1, most} \ {0}
        ELSE 1..most

\* socket.recv_into(buf, nbytes) and socket.recv(size): how many bytes are asked for
sock_recv_into(buflen, nbytes) == IF nbytes = 0 THEN buflen ELSE nbytes
sock_recv(size) == size

\* the transport after k bytes were taken from socket s (the bytes taken are
\* counted on the caller's own socket)
Taken(s, k) ==
    [sockets EXCEPT ![s].wire = SubSeq(@, k + 1, Len(@)),
                    ![s].taken = IF sockets[s].peer = <<>> THEN @ + k ELSE @]

\* Response._recv_into(buf, size): the number of bytes asked of the transport
_recv_into(R, buflen, size) ==
    IF R.backwards_compatible
    THEN sock_recv(IF size = 0 THEN buflen ELSE size)
    ELSE sock_recv_into(buflen, size)

----------------------------------------------------------------------------
(* class Response *)

INITIAL_SIZE == 32
GROW == 32

bytes(b) == [kind |-> "bytes", val |-> b]
\* a decoding that leaves the value a bytes object
str_undecoded(b) == [kind |-> "bytes", val |-> b]
\* str(b, "utf-8"): the model's bytes are ASCII, one character per byte
str(b) == [kind |-> "str", val |-> b]
NoneValue == [kind |-> "None", val |-> <<>>]

F_readto(r, first, second) ==
    [fn |-> "_readto", pc |-> "entry", self |-> r, first |-> first,
     second |-> second, end |-> 0]
F_parse_headers(r) ==
    << [fn |-> "_parse_headers", pc |-> "title", self |-> r, title |-> <<>>],
       F_readto(r, COLON_SP, CRLF) >>
F_readinto(r, n) == [fn |-> "_readinto", pc |-> "start", self |-> r, len |-> n]
F_throw_away(r, n) ==
    [fn |-> "_throw_away", pc |-> "start", self |-> r, nbytes |-> n,
     count |-> 0, remaining |-> 0]
F_close(r) == [fn |-> "close", pc |-> "start", self |-> r]
F_iter_content(r, chunk_size) ==
    << [fn |-> "iter_content", pc |-> "got", self |-> r, chunk_size |-> chunk_size],
       F_readinto(r, chunk_size) >>

\* Response.__init__, lines 78-94: the fields, then the first _readto
NewResponse(s, recv_into) ==
    [socket |-> s, encoding |-> "utf-8", cached |-> NoneValue, headers |-> {},
     received_length |-> 0, receive_buffer |-> Bytes(INITIAL_SIZE, NUL),
     remaining |-> None, chunked |-> FALSE,
     backwards_compatible |-> ~recv_into,
     status_code |-> None, reason |-> <<>>, session |-> 0, held |-> FALSE]

F_init(r, session) ==
    << [fn |-> "__init__", pc |-> "http", self |-> r, session |-> session],
       F_readto(r, <<SP>>, <<>>) >>

init_http ==
    /\ At("__init__", "http")
    /\ IF ret = <<>>
       THEN Raise("RuntimeError")
       ELSE Call([Top EXCEPT !.pc = "status"], <<F_readto(Top.self, <<SP>>, <<>>)>>)
    /\ UNCHANGED <<data, env>>

init_status ==
    /\ At("__init__", "status")
    /\ LET n == int(ret, 10)
       IN  IF ~n.ok
           THEN Raise("ValueError") /\ UNCHANGED resp
           ELSE /\ resp' = [resp EXCEPT ![Top.self].status_code = Some(n.val)]
                /\ Call([Top EXCEPT !.pc = "reason"], <<F_readto(Top.self, CRLF, <<>>)>>)
    /\ UNCHANGED <<sockets, open_sockets, socket_free, last_response, env>>

init_reason ==
    /\ At("__init__", "reason")
    /\ resp' = [resp EXCEPT ![Top.self].reason = ret]
    /\ Call([Top EXCEPT !.pc = "headers"], F_parse_headers(Top.self))
    /\ UNCHANGED <<sockets, open_sockets, socket_free, last_response, env>>

init_done ==
    /\ At("__init__", "headers")
    /\ resp' = [resp EXCEPT ![Top.self].session = Top.session,
                            ![Top.self].held = (Rest = <<>>)]
    /\ Return(Top.self)
    /\ UNCHANGED <<sockets, open_sockets, socket_free, last_response, env>>

\* a search that looks for the first needle only
Match_first_only(buf, first, second, end) ==
    LET firsti == find(buf, first, 0, end)
    IN  IF firsti >= 0 THEN [i |-> firsti, needle_len |-> Len(first)]
        ELSE [i |-> -1, needle_len |-> 0]

\* _readto, lines 124-136: where the earlier of the two needles is, and its length
Match(buf, first, second, end) ==
    LET firsti == find(buf, first, 0, end)
        secondi == IF second # <<>> THEN find(buf, second, 0, end) ELSE -1
    IN  IF secondi >= 0 /\ (firsti < 0 \/ secondi < firsti)
        THEN [i |-> secondi, needle_len |-> Len(second)]
        ELSE IF firsti >= 0 THEN [i |-> firsti, needle_len |-> Len(first)]
        ELSE [i |-> -1, needle_len |-> 0]

\* a scanner that leaves the matched bytes at the front of the buffer
Compact_not_moved(buf, new_start, end) == buf

\* _readto, lines 139-144: the buffer after the match is removed
Compact(buf, new_start, end) == Pad(Slice(buf, new_start, end), Len(buf))

\* _readto, lines 150-155: a full buffer grows
Grown(buf, end) == IF end = Len(buf) THEN Pad(buf, Len(buf) + GROW) ELSE buf

\* _readto, lines 121-155: search; on a match return what precedes it, else
\* make room and go read
readto_scan ==
    /\ stack # <<>> /\ Top.fn = "_readto" /\ Top.pc \in {"entry", "scan"}
    /\ LET r == Top.self
           buf == resp[r].receive_buffer
           end == IF Top.pc = "entry" THEN resp[r].received_length ELSE Top.end
           m == Match(buf, Top.first, Top.second, end)
           new_start == m.i + m.needle_len
       IN  IF m.i >= 0
           THEN /\ resp' = IF new_start <= end
                           THEN [resp EXCEPT ![r].receive_buffer = Compact(buf, new_start, end),
                                             ![r].received_length = end - new_start]
                           ELSE resp
                /\ Return(Slice(buf, 0, m.i))
           ELSE /\ resp' = [resp EXCEPT ![r].receive_buffer = Grown(buf, end)]
                /\ Goto([Top EXCEPT !.pc = "recv", !.end = end])
    /\ UNCHANGED <<sockets, open_sockets, socket_free, last_response, env>>

\* _readto, lines 157-161: read into the free tail of the buffer
readto_recv ==
    /\ At("_readto", "recv")
    /\ LET r == Top.self
           s == resp[r].socket
           buf == resp[r].receive_buffer
           end == Top.end
       IN  \E read \in Delivered(s, _recv_into(resp[r], Len(buf) - end, 0)) :
             /\ sockets' = Taken(s, read)
             /\ IF read = 0
                THEN /\ resp' = [resp EXCEPT ![r].received_length = 0,
                                             ![r].receive_buffer = Pad(<<>>, Len(buf))]
                     /\ Return(Slice(buf, 0, end))
                ELSE /\ resp' = [resp EXCEPT ![r].receive_buffer =
                            Pad(Slice(buf, 0, end) \o SubSeq(sockets[s].wire, 1, read), Len(buf))]
                     /\ Goto([Top EXCEPT !.pc = "scan", !.end = end + read])
    /\ UNCHANGED <<open_sockets, socket_free, last_response, env>>

\* _parse_headers, lines 266-272: one header line stored
Stored(R, title, content) ==
    LET t == str(title)
        c == str(content)
        framed ==
            [R EXCEPT
                !.remaining = IF Len(t.val) = Len(CONTENT_LENGTH) /\ lower(t.val) = CONTENT_LENGTH
                              THEN Some(int(c.val, 10).val) ELSE @,
                !.chunked = IF Len(t.val) = Len(TRANSFER_ENCODING)
                               /\ lower(t.val) = TRANSFER_ENCODING
                            THEN lower(c.val) = CHUNKED ELSE @]
    IN  [framed EXCEPT !.headers = {h \in @ : h[1] # t} \cup {<<t, c>>}]

\* _parse_headers, lines 253-257
ph_title ==
    /\ At("_parse_headers", "title")
    /\ IF ret = <<>>
       THEN Return(None)
       ELSE Call([Top EXCEPT !.pc = "content", !.title = ret],
                 <<F_readto(Top.self, CRLF, <<>>)>>)
    /\ UNCHANGED <<data, env>>

\* _parse_headers, lines 257-272 and the next round's line 253
ph_content ==
    /\ At("_parse_headers", "content")
    /\ LET r == Top.self
           isLength == Len(Top.title) = Len(CONTENT_LENGTH) /\ lower(Top.title) = CONTENT_LENGTH
       IN  IF ret # <<>> /\ isLength /\ ~int(ret, 10).ok
           THEN Raise("ValueError") /\ UNCHANGED resp
           ELSE /\ resp' = IF ret # <<>>
                           THEN [resp EXCEPT ![r] = Stored(@, Top.title, ret)]
                           ELSE resp
                /\ Call([Top EXCEPT !.pc = "title", !.title = <<>>],
                        <<F_readto(r, COLON_SP, CRLF)>>)
    /\ UNCHANGED <<sockets, open_sockets, socket_free, last_response, env>>

\* a buffer read that hands over all that is buffered, whatever was asked for
_read_from_buffer_all(R, hasbuf, nbytes) ==
    [read |-> R.received_length,
     out |-> IF hasbuf THEN Slice(R.receive_buffer, 0, R.received_length) ELSE <<>>,
     received_length |-> 0,
     receive_buffer |-> Pad(<<>>, Len(R.receive_buffer))]

\* _read_from_buffer(buf, nbytes), lines 165-180, on the fields R: the count
\* returned, the bytes copied into buf (none when buf is None) and the
\* buffer that is left
_read_from_buffer(R, hasbuf, nbytes) ==
    IF R.received_length = 0
    THEN [read |-> 0, out |-> <<>>, received_length |-> 0,
          receive_buffer |-> R.receive_buffer]
    ELSE LET read == IF nbytes < R.received_length THEN nbytes ELSE R.received_length
         IN  [read |-> read,
              out |-> IF hasbuf THEN Slice(R.receive_buffer, 0, read) ELSE <<>>,
              received_length |->
                  IF read < R.received_length THEN R.received_length - read ELSE 0,
              receive_buffer |->
                  IF read < R.received_length
                  THEN Pad(Slice(R.receive_buffer, read, R.received_length),
                           Len(R.receive_buffer))
                  ELSE Pad(<<>>, Len(R.receive_buffer))]

\* not self._remaining
NoRemaining(R) == R.remaining = None \/ R.remaining = Some(0)

\* _readinto, lines 204-213, entered with the fields R: buffered bytes first,
\* else one transport read of at most nbytes
readinto_body(r, R) ==
    LET nbytes == IF Top.len > The(R.remaining) THEN The(R.remaining) ELSE Top.len
        b == _read_from_buffer(R, TRUE, nbytes)
    IN  IF b.read = 0
        THEN /\ resp' = [resp EXCEPT ![r] = R]
             /\ Goto([Top EXCEPT !.pc = "recv", !.len = nbytes])
        ELSE /\ resp' = [resp EXCEPT ![r] =
                    [R EXCEPT !.received_length = b.received_length,
                              !.receive_buffer = b.receive_buffer,
                              !.remaining = Some(The(@) - b.read)]]
             /\ Return([read |-> b.read, buf |-> b.out])

\* _readinto, lines 183-202 (and 204-213 when a count is pending)
readinto_start ==
    /\ At("_readinto", "start")
    /\ LET r == Top.self
           R == resp[r]
       IN  IF R.socket = 0
           THEN Raise("RuntimeError") /\ UNCHANGED resp
           ELSE IF NoRemaining(R)
           THEN /\ UNCHANGED resp
                /\ IF R.chunked
                   THEN IF R.remaining = Some(0)
                        THEN Call([Top EXCEPT !.pc = "hdr"], <<F_throw_away(r, 2)>>)
                        ELSE Call([Top EXCEPT !.pc = "size"], <<F_readto(r, <<SEMI>>, CRLF)>>)
                   ELSE Return([read |-> 0, buf |-> <<>>])
           ELSE readinto_body(r, R)
    /\ UNCHANGED <<sockets, open_sockets, socket_free, last_response, env>>

\* _readinto, line 194, after the trailing CRLF of the last chunk was skipped
readinto_hdr ==
    /\ At("_readinto", "hdr")
    /\ Call([Top EXCEPT !.pc = "size"], <<F_readto(Top.self, <<SEMI>>, CRLF)>>)
    /\ UNCHANGED <<data, env>>

\* _readinto, lines 195-200 (and 204-213 for a chunk with data)
readinto_size ==
    /\ At("_readinto", "size")
    /\ LET r == Top.self
           http_chunk_size == int(ret, 16)
       IN  IF ~http_chunk_size.ok
           THEN Raise("ValueError") /\ UNCHANGED resp
           ELSE IF http_chunk_size.val = 0
           THEN /\ resp' = [resp EXCEPT ![r].chunked = FALSE]
                /\ Call([Top EXCEPT !.pc = "trailer"], F_parse_headers(r))
           ELSE readinto_body(r, [resp[r] EXCEPT !.remaining = Some(http_chunk_size.val)])
    /\ UNCHANGED <<sockets, open_sockets, socket_free, last_response, env>>

\* _readinto, line 199
readinto_trailer ==
    /\ At("_readinto", "trailer")
    /\ Return([read |-> 0, buf |-> <<>>])
    /\ UNCHANGED <<data, env>>

\* _readinto, lines 210-213: the transport read straight into the caller's buffer
readinto_recv ==
    /\ At("_readinto", "recv")
    /\ LET r == Top.self
           s == resp[r].socket
       IN  \E read \in Delivered(s, _recv_into(resp[r], Top.len, Top.len)) :
             /\ sockets' = Taken(s, read)
             /\ resp' = [resp EXCEPT ![r].remaining = Some(The(@) - read)]
             /\ Return([read |-> read, buf |-> SubSeq(sockets[s].wire, 1, read)])
    /\ UNCHANGED <<open_sockets, socket_free, last_response, env>>

\* _throw_away, lines 216-221: buffered bytes first, then how many whole-buffer
\* reads and what last read are issued
ta_start ==
    /\ At("_throw_away", "start")
    /\ LET r == Top.self
           b == _read_from_buffer(resp[r], FALSE, Top.nbytes)
           nbytes == Top.nbytes - b.read
           buflen == Len(resp[r].receive_buffer)
           f == [Top EXCEPT !.nbytes = nbytes, !.count = nbytes \div buflen,
                            !.remaining = nbytes % buflen]
       IN  /\ resp' = [resp EXCEPT ![r].received_length = b.received_length,
                                   ![r].receive_buffer = b.receive_buffer]
           /\ IF f.count > 0 THEN Goto([f EXCEPT !.pc = "bulk"])
              ELSE IF f.remaining > 0 THEN Goto([f EXCEPT !.pc = "last"])
              ELSE Return(None)
    /\ UNCHANGED <<sockets, open_sockets, socket_free, last_response, env>>

\* _throw_away, lines 219-220: one read of up to len(buf) bytes per round
ta_bulk ==
    /\ At("_throw_away", "bulk")
    /\ LET r == Top.self
           s == resp[r].socket
       IN  \E read \in Delivered(s, _recv_into(resp[r], Len(resp[r].receive_buffer), 0)) :
             /\ sockets' = Taken(s, read)
             /\ IF Top.count > 1 THEN Goto([Top EXCEPT !.count = @ - 1])
                ELSE IF Top.remaining > 0 THEN Goto([Top EXCEPT !.pc = "last", !.count = 0])
                ELSE Return(None)
    /\ UNCHANGED <<resp, open_sockets, socket_free, last_response, env>>

\* _throw_away, lines 221-223: one read of up to `remaining` bytes
ta_last ==
    /\ At("_throw_away", "last")
    /\ LET r == Top.self
           s == resp[r].socket
       IN  \E read \in Delivered(s, _recv_into(resp[r], Len(resp[r].receive_buffer),
                                               Top.remaining)) :
             /\ sockets' = Taken(s, read)
             /\ Return(None)
    /\ UNCHANGED <<resp, open_sockets, socket_free, last_response, env>>

\* close, lines 227-240
close_start ==
    /\ At("close", "start")
    /\ LET r == Top.self
           R == resp[r]
       IN  IF R.socket = 0 THEN Return(None)
           ELSE IF R.cached # NoneValue THEN Goto([Top EXCEPT !.pc = "release"])
           ELSE IF R.remaining = None THEN Raise("TypeError")
           ELSE IF The(R.remaining) > 0
           THEN Call([Top EXCEPT !.pc = "release"], <<F_throw_away(r, The(R.remaining))>>)
           ELSE IF R.chunked
           THEN Call([Top EXCEPT !.pc = "chunksize"], <<F_readto(r, <<SEMI>>, CRLF)>>)
           ELSE Goto([Top EXCEPT !.pc = "release"])
    /\ UNCHANGED <<data, env>>

\* close, lines 236-240
close_chunksize ==
    /\ At("close", "chunksize")
    /\ LET chunk_size == int(ret, 16)
       IN  IF ~chunk_size.ok THEN Raise("ValueError")
           ELSE IF chunk_size.val = 0
           THEN Call([Top EXCEPT !.pc = "release"], F_parse_headers(Top.self))
           ELSE Call([Top EXCEPT !.pc = "chunk"],
                     <<F_throw_away(Top.self, chunk_size.val + 2)>>)
    /\ UNCHANGED <<data, env>>

\* close, line 235, for the next chunk
close_chunk ==
    /\ At("close", "chunk")
    /\ Call([Top EXCEPT !.pc = "chunksize"], <<F_readto(Top.self, <<SEMI>>, CRLF)>>)
    /\ UNCHANGED <<data, env>>

\* Session.free_socket, line 352: the socket is one of _open_sockets' values
Tracked(s) == \E k \in DOMAIN open_sockets : open_sockets[k] = s

\* a release that leaves the flags as they are
free_socket_unmarked(s) == socket_free

\* Session.free_socket, line 354: the flags after socket s was released
free_socket(s) ==
    [x \in DOMAIN socket_free \cup {s} |-> IF x = s THEN TRUE ELSE socket_free[x]]

\* a close that keeps the reference to the socket
Cleared_not(r) == resp

\* close, line 245: self.socket = None
Cleared(r) == [resp EXCEPT ![r].socket = 0]

\* close, lines 241-245
close_release ==
    /\ At("close", "release")
    /\ LET r == Top.self
           s == resp[r].socket
       IN  IF resp[r].session # 0
           THEN IF ~Tracked(s)
                THEN Raise("RuntimeError") /\ UNCHANGED <<resp, sockets, socket_free>>
                ELSE /\ socket_free' = free_socket(s)
                     /\ resp' = Cleared(r)
                     /\ Return(None)
                     /\ UNCHANGED sockets
           ELSE /\ sockets' = [sockets EXCEPT ![s].closed = TRUE]
                /\ resp' = Cleared(r)
                /\ Return(None)
                /\ UNCHANGED socket_free
    /\ UNCHANGED <<open_sockets, last_response, env>>

\* iter_content, lines 331-338: what _readinto gave is yielded, or the end
ic_got ==
    /\ At("iter_content", "got")
    /\ LET size == ret.read
           chunk == IF size < Top.chunk_size THEN Slice(ret.buf, 0, size) ELSE ret.buf
       IN  IF size = 0
           THEN Call([Top EXCEPT !.pc = "closed"], <<F_close(Top.self)>>)
           ELSE IF Rest = <<>>
           THEN /\ stack' = <<>>
                /\ ret' = None
                /\ gen' = [gen EXCEPT !.state = "suspended"]
                /\ result' = Outcome("", chunk)
                /\ yielded' = IF sockets[1].peer = <<>> THEN Append(yielded, chunk) ELSE <<>>
           ELSE /\ stack' = Rest
                /\ ret' = [stop |-> FALSE, chunk |-> chunk]
                /\ UNCHANGED <<gen, result, yielded>>
    /\ UNCHANGED <<data, env>>

\* iter_content, line 339 done: the generator is exhausted
ic_closed ==
    /\ At("iter_content", "closed")
    /\ IF Rest = <<>>
       THEN /\ stack' = <<>>
            /\ ret' = None
            /\ gen' = [gen EXCEPT !.state = "finished"]
            /\ result' = Outcome("StopIteration", None)
            /\ UNCHANGED yielded
       ELSE /\ stack' = Rest
            /\ ret' = [stop |-> TRUE, chunk |-> <<>>]
            /\ UNCHANGED <<gen, result, yielded>>
    /\ UNCHANGED <<data, env>>

JOIN_CHUNK == 32

\* content, line 290: b"".join(self.iter_content(chunk_size=32))
content_join ==
    /\ At("content", "join")
    /\ IF ret.stop
       THEN /\ resp' = [resp EXCEPT ![Top.self].cached = bytes(Top.acc)]
            /\ Return(Top.acc)
       ELSE /\ Call([Top EXCEPT !.acc = @ \o ret.chunk], F_iter_content(Top.self, JOIN_CHUNK))
            /\ UNCHANGED resp
    /\ UNCHANGED <<sockets, open_sockets, socket_free, last_response, env>>

\* text, line 301: str(self.content, self.encoding)
text_decode ==
    /\ At("text", "decode")
    /\ resp' = [resp EXCEPT ![Top.self].cached = str(ret)]
    /\ Return(ret)
    /\ UNCHANGED <<sockets, open_sockets, socket_free, last_response, env>>

F_content(r) ==
    << [fn |-> "content", pc |-> "join", self |-> r, acc |-> <<>>] >>
    \o F_iter_content(r, JOIN_CHUNK)

\* a call that finishes without running any further code
Immediate(op, r, e, v) ==
    /\ result' = [op |-> op, self |-> r, exc |-> e, val |-> v]
    /\ UNCHANGED <<stack, ret, gen, yielded>>

\* the kinds of call the caller has made on the response so far
Use(op) == IF sockets[1].peer = <<>> THEN usage \cup {op} ELSE {}

Held == {r \in 1..Len(resp) : resp[r].held}

\* the caller reads Response.content, lines 285-290
content ==
    /\ Idle
    /\ \E r \in Held :
         IF resp[r].cached # NoneValue
         THEN IF resp[r].cached.kind = "bytes"
              THEN Immediate("content", r, "", resp[r].cached.val)
              ELSE Immediate("content", r, "RuntimeError", None)
         ELSE /\ stack' = F_content(r)
              /\ UNCHANGED <<ret, gen, result, yielded>>
    /\ UNCHANGED <<data, scen, acquired>>
    /\ usage' = Use("content")

\* the caller reads Response.text, lines 297-301
text ==
    /\ Idle
    /\ \E r \in Held :
         IF resp[r].cached # NoneValue
         THEN IF resp[r].cached.kind = "str"
              THEN Immediate("text", r, "", resp[r].cached.val)
              ELSE Immediate("text", r, "RuntimeError", None)
         ELSE /\ stack' = <<[fn |-> "text", pc |-> "decode", self |-> r]>> \o F_content(r)
              /\ UNCHANGED <<ret, gen, result, yielded>>
    /\ UNCHANGED <<data, scen, acquired>>
    /\ usage' = Use("text")

\* the caller calls Response.close()
close ==
    /\ Idle
    /\ \E r \in Held :
         /\ stack' = <<F_close(r)>>
         /\ UNCHANGED <<ret, gen, result, yielded>>
    /\ UNCHANGED <<data, scen, acquired>>
    /\ usage' = Use("close")

\* the caller works on a socket of its own, not through a Session
Direct == sockets # <<>> /\ sockets[1].peer = <<>>

NoGen == [state |-> "none", self |-> 0, chunk_size |-> 0]

\* the caller calls Response.iter_content(chunk_size), lines 323-329: a
\* generator object; its body runs at the first next()
iter_content ==
    /\ Idle
    /\ gen.state = "none"
    /\ \E r \in Held, chunk_size \in 1..MaxChunkSize :
         gen' = [state |-> "fresh", self |-> r, chunk_size |-> chunk_size]
    /\ UNCHANGED <<stack, ret, result, yielded, data, scen, acquired>>
    /\ usage' = Use("iter")

\* the caller calls next() on its generator
next ==
    /\ Idle
    /\ gen.state \in {"fresh", "suspended"}
    /\ stack' = F_iter_content(gen.self, gen.chunk_size)
    /\ gen' = [gen EXCEPT !.state = "running"]
    /\ UNCHANGED <<ret, result, yielded, data, scen, acquired>>
    /\ usage' = Use("iter")

NoResult == [op |-> "", self |-> 0, exc |-> "", val |-> None]

Socket(wire, recv_into, peer) ==
    [wire |-> wire, taken |-> 0, closed |-> FALSE, recv_into |-> recv_into,
     peer |-> peer, connected |-> TRUE]

\* the caller constructs Response(sock) on its own connected socket
Response ==
    /\ Idle
    /\ Direct
    /\ resp = <<>>
    /\ resp' = <<NewResponse(1, sockets[1].recv_into)>>
    /\ stack' = F_init(1, 0)
    /\ UNCHANGED <<ret, gen, result, yielded, sockets, open_sockets, socket_free,
                   last_response, scen, usage, acquired>>

----------------------------------------------------------------------------
(* class Session *)

\* the (host, port, proto) a request can name
Keys == {<<"a", 80, "http:">>, <<"b", 80, "http:">>}
NoKey == <<>>

\* the key of a Session's first request (which of the keys it is makes no
\* difference)
FirstKey == <<"a", 80, "http:">>

\* what the servers answer to a request
Answers == {
    Scenario("length", CONTENT_LENGTH, <<>>, <<"a","b">>, <<>>, <<>>, <<>>, TRUE),
    Scenario("none", <<>>, <<>>, <<>>, <<>>, <<>>, <<>>, TRUE),
    [Scenario("none", <<>>, << <<LOCATION, <<"x">>>> >>, <<>>, <<>>, <<>>, <<>>, TRUE)
        EXCEPT !.status = 301, !.reason = <<"M">>],
    Scenario("silent", <<>>, <<>>, <<>>, <<>>, <<>>, <<>>, TRUE)
}

\* what a server puts on the wire: nothing when it closes the connection
\* without answering
Sent(sc) == IF sc.framing = "silent" THEN <<>> ELSE Wire(sc)

\* sock.connect(): it succeeds or raises MemoryError
Connect == {"ok", "MemoryError"}

Put(f, k, v) == [x \in DOMAIN f \cup {k} |-> IF x = k THEN v ELSE f[x]]

\* the sockets a Session holds as free
Free == {s \in DOMAIN socket_free : socket_free[s]}

\* _get_socket, lines 358-362: the key has a socket and that socket is free
Reusable(key) == key \in DOMAIN open_sockets /\ socket_free[open_sockets[key]]

\* _get_socket, lines 391-395: the key under which s is held (a socket is held
\* under one key at most), None when it is held under none
KeyOf(s) ==
    IF \E k \in DOMAIN open_sockets : open_sockets[k] = s
    THEN CHOOSE k \in DOMAIN open_sockets : open_sockets[k] = s
    ELSE NoKey

\* an eviction that leaves the free flags as they are
Evicted_free_kept == socket_free

\* _get_socket, lines 384-397: the two maps after every free socket was evicted
Evicted_free == [s \in DOMAIN socket_free \ Free |-> socket_free[s]]
Evicted_open ==
    [k \in {k \in DOMAIN open_sockets : open_sockets[k] \notin Free} |-> open_sockets[k]]

\* _get_socket, lines 370-376 and 400-404: a socket is created and connect is
\* called on it
Created(socks, key, outcome) ==
    Append(socks, [Socket(<<>>, TRUE, <<key[1], key[2]>>)
                       EXCEPT !.connected = (outcome = "ok")])

Got(exc, sock, socks, open, free, created) ==
    [exc |-> exc, sock |-> sock, sockets |-> socks, open_sockets |-> open,
     socket_free |-> free, created |-> created]

\* _get_socket(host, port, proto), lines 356-407, when the first connect ends
\* as c1, the retry (if any) as c2, and `last` is the free socket the eviction
\* loop visits last (0 when no socket is free): the exception raised or the
\* socket returned, and the sockets and the two maps it leaves
_get_socket(key, c1, c2, last) ==
    LET n1 == Len(sockets) + 1
        n2 == n1 + 1
        s1 == Created(sockets, key, c1)
        closed == [s \in DOMAIN s1 |->
                      IF s \in Free THEN [s1[s] EXCEPT !.closed = TRUE] ELSE s1[s]]
        s2 == Created(closed, key, c2)
        key2 == IF last = 0 THEN key ELSE KeyOf(last)
    IN  IF Reusable(key)
        THEN Got("", open_sockets[key], sockets, open_sockets,
                 Put(socket_free, open_sockets[key], FALSE), 0)
        ELSE IF c1 = "ok"
        THEN Got("", n1, s1, Put(open_sockets, key, n1), Put(socket_free, n1, FALSE), 1)
        ELSE IF DOMAIN socket_free = {}
        THEN Got("MemoryError", 0, s1, open_sockets, socket_free, 1)
        ELSE IF c2 = "ok"
        THEN Got("", n2, s2, Put(Evicted_open, key2, n2), Put(Evicted_free, n2, FALSE), 2)
        ELSE Got("MemoryError", 0, s2, Evicted_open, Evicted_free, 2)

\* the caller calls Session.request(method, url) for a url that names `key`;
\* lines 419-441: the previous response is closed first
request ==
    /\ Idle
    /\ ~Direct
    /\ Len(acquired) < MaxRequests
    /\ \E key \in (IF acquired = <<>> THEN {FirstKey} ELSE Keys) :
         stack' = <<[fn |-> "request", pc |-> "get_socket", self |-> 0, key |-> key]>>
                  \o (IF last_response # 0 THEN <<F_close(last_response)>> ELSE <<>>)
    /\ ret' = None
    /\ gen' = NoGen
    /\ yielded' = <<>>
    /\ usage' = {}
    /\ result' = NoResult
    /\ UNCHANGED <<data, scen, acquired>>

\* a Response object nothing refers to any more
Garbage == [NewResponse(0, TRUE) EXCEPT !.session = 1]

\* the responses once the Session has let go of the previous one: the caller
\* keeps no reference to a response that is closed, and never had one to a
\* response that request() did not return
Forgotten(rs) ==
    [r \in DOMAIN rs |-> IF rs[r].socket = 0 \/ ~rs[r].held THEN Garbage ELSE rs[r]]

\* request, lines 442-482: a socket is obtained, the request is sent on it (the
\* server answers) and a Response is constructed on it
request_get_socket ==
    /\ At("request", "get_socket")
    /\ \E c1 \in Connect, c2 \in Connect, last \in (IF Free = {} THEN {0} ELSE Free) :
         LET g == _get_socket(Top.key, c1, c2, last)
             r == Len(resp) + 1
         IN  /\ open_sockets' = g.open_sockets
             /\ socket_free' = g.socket_free
             /\ acquired' = Append(acquired,
                    [key |-> Top.key, sock |-> g.sock, exc |-> g.exc,
                     created |-> g.created, free |-> Free])
             /\ IF g.exc # ""
                THEN /\ sockets' = g.sockets
                     /\ Raise(g.exc)
                     /\ resp' = Forgotten(resp)
                     /\ UNCHANGED scen
                ELSE \E sc \in Answers :
                     /\ sockets' = [g.sockets EXCEPT ![g.sock].wire = @ \o Sent(sc)]
                     /\ scen' = sc
                     /\ resp' = Append(Forgotten(resp),
                                       NewResponse(g.sock, g.sockets[g.sock].recv_into))
                     /\ Call([Top EXCEPT !.pc = "response"], F_init(r, 1))
    /\ last_response' = 0
    /\ UNCHANGED usage

\* request, lines 483-487
request_done ==
    /\ At("request", "response")
    /\ LET r == ret
       IN  IF (\E h \in resp[r].headers : h[1] = str(LOCATION))
              /\ ~(The(resp[r].status_code) \in 200..299)
           THEN /\ Raise("NotImplementedError")
                /\ resp' = [resp EXCEPT ![r] = Garbage]
                /\ UNCHANGED last_response
           ELSE /\ last_response' = r
                /\ resp' = [resp EXCEPT ![r].held = TRUE]
                /\ Return(r)
    /\ UNCHANGED <<sockets, open_sockets, socket_free, env>>

\* the sockets that _socket_free knows and _open_sockets does not
Orphans == {s \in DOMAIN socket_free : ~Tracked(s)}

\* the caller calls Session.free_socket(s), lines 351-354, for a socket that
\* the Session has lost track of
Session_free_socket ==
    /\ Idle
    /\ ~Direct
    /\ \E s \in Orphans :
         /\ IF Tracked(s)
            THEN /\ socket_free' = free_socket(s)
                 /\ Immediate("free_socket", s, "", None)
            ELSE /\ Immediate("free_socket", s, "RuntimeError", None)
                 /\ UNCHANGED socket_free
    /\ UNCHANGED <<resp, sockets, open_sockets, last_response, env>>

\* a connected socket of the caller's on which the server's response is under way
InitDirect ==
    /\ scen \in Scenarios
    /\ sockets = <<Socket(Wire(scen), scen.recv_into, <<>>)>>

\* a Session that has not been used
InitSession ==
    /\ scen = NoScenario
    /\ sockets = <<>>

Init ==
    /\ InitDirect \/ InitSession
    /\ resp = <<>>
    /\ open_sockets = <<>>
    /\ socket_free = <<>>
    /\ last_response = 0
    /\ stack = <<>>
    /\ ret = None
    /\ gen = NoGen
    /\ result = NoResult
    /\ yielded = <<>>
    /\ usage = {}
    /\ acquired = <<>>

Step ==
    \/ init_http \/ init_status \/ init_reason \/ init_done
    \/ readto_scan \/ readto_recv
    \/ ph_title \/ ph_content
    \/ readinto_start \/ readinto_hdr \/ readinto_size \/ readinto_trailer
    \/ readinto_recv
    \/ ta_start \/ ta_bulk \/ ta_last
    \/ close_start \/ close_chunksize \/ close_chunk \/ close_release
    \/ ic_got \/ ic_closed \/ content_join \/ text_decode
    \/ request_get_socket \/ request_done

Next ==
    \/ Response \/ request \/ iter_content \/ next \/ content \/ text \/ close
    \/ Session_free_socket
    \/ Step

Spec == Init /\ [][Next]_vars

----------------------------------------------------------------------------
(* Properties of one Response on the caller's own socket *)

IsPrefix(a, b) == Len(a) <= Len(b) /\ SubSeq(b, 1, Len(a)) = a

\* the mapping the header lines hs denote: a later line replaces an earlier
\* one of the same name
HeaderMap(hs) ==
    {<<str(hs[i][1]), str(hs[i][2])>> :
        i \in {i \in DOMAIN hs : \A j \in DOMAIN hs : j > i => hs[j][1] # hs[i][1]}}

NoExtension(sc) == \A i \in DOMAIN sc.chunks : sc.chunks[i].ext = <<>>

\* the bytes of the response the server sent: everything before sc.tail
ResponseLen(sc) == Len(Preamble(sc)) + Len(Body(sc))

\* C1: however the byte stream is split across transport reads, constructing
\* a Response on a well-formed preamble succeeds, and its status code, reason
\* and header mapping are the ones the server sent (so they are the same for
\* every split).
C1_PreambleParsed ==
    Direct =>
        /\ result.op = "__init__" =>
              /\ result.exc = ""
              /\ Idle => resp[1].headers = HeaderMap(Headers(scen))
        /\ \A r \in Held :
              /\ resp[r].status_code = Some(scen.status)
              /\ resp[r].reason = scen.reason

\* C1 is exercised: a preamble with a long header line was parsed, the buffer
\* grew, and nothing past the preamble was taken from the transport
C1_Witness ==
    /\ Direct /\ Idle /\ result.op = "__init__" /\ result.exc = ""
    /\ scen.hdrs # <<>>
    /\ Len(resp[1].receive_buffer) > INITIAL_SIZE
    /\ sockets[1].taken = Len(Preamble(scen))

\* C2: with Content-Length N, iter_content yields chunks of 1..chunk_size
\* bytes, what was yielded is always a prefix of the N body bytes, next()
\* raises nothing but the end of the iteration, and the iteration ends exactly
\* when all N bytes were yielded.
C2_LengthIteration ==
    (Direct /\ scen.framing = "length") =>
        /\ \A i \in DOMAIN yielded : Len(yielded[i]) \in 1..gen.chunk_size
        /\ IsPrefix(Concat(yielded), scen.payload)
        /\ (Idle /\ usage = {"iter"} /\ result.op = "iter_content") =>
              /\ result.exc \in {"", "StopIteration"}
              /\ result.exc = "StopIteration" => Concat(yielded) = scen.payload

\* C2 is exercised: a 3-byte body was iterated to its end in several chunks
\* while the transport still holds bytes that follow the body
C2_Witness ==
    /\ Direct /\ scen.framing = "length" /\ Len(scen.payload) = 3
    /\ Idle /\ usage = {"iter"} /\ result.exc = "StopIteration"
    /\ Len(yielded) >= 2 /\ Concat(yielded) = scen.payload
    /\ sockets[1].wire # <<>>

\* C3: for a content-length response, at every point the number of bytes
\* taken from the transport is at most the length of the preamble plus N.
C3_NoByteBeyondBody ==
    (Direct /\ scen.framing = "length") =>
        sockets[1].taken <= Len(Preamble(scen)) + Len(scen.payload)

\* C4: for a chunked body (chunk-size lines without extensions), reading to
\* the end with content returns the concatenation of the chunks' data, and
\* iterating yields a prefix of it, raises nothing but the end of the
\* iteration, and ends when all of it was yielded.
C4_ChunkedDecoded ==
    (Direct /\ scen.framing = "chunked" /\ NoExtension(scen)) =>
        /\ usage = {"iter"} => IsPrefix(Concat(yielded), Payload(scen))
        /\ (Idle /\ usage = {"content"} /\ result.op = "content") =>
              /\ result.exc = ""
              /\ result.val = Payload(scen)
        /\ (Idle /\ usage = {"iter"} /\ result.op = "iter_content") =>
              /\ result.exc \in {"", "StopIteration"}
              /\ result.exc = "StopIteration" => Concat(yielded) = Payload(scen)

\* C5: a chunked body whose chunk-size line carries ";<extension>" decodes to
\* the same bytes as without the extension: the chunks' data.
C5_ExtensionIgnored ==
    (Direct /\ scen.framing = "chunked" /\ ~NoExtension(scen)
        /\ Idle /\ usage = {"content"} /\ result.op = "content") =>
        /\ result.exc = ""
        /\ result.val = Payload(scen)

\* C6: when close() is called on a framed response of which nothing or only
\* a part was read by iteration, it returns with the transport positioned at
\* the first byte after this response: all of the response was taken from the
\* transport and nothing more.
C6_CloseDrainsExactly ==
    (/\ Direct /\ scen.framing \in {"length", "chunked"} /\ NoExtension(scen)
     /\ Idle /\ result.op = "close" /\ usage \subseteq {"iter", "close"}
     /\ gen.state \in {"none", "fresh", "suspended"}) =>
        /\ result.exc = ""
        /\ sockets[1].taken = ResponseLen(scen)

\* C7: close() on a response, whatever its framing and whatever was read,
\* returns without raising, with the transport reference cleared and the
\* caller's socket closed (no session is attached).
C7_CloseCompletes ==
    (Direct /\ Idle /\ result.op = "close") =>
        /\ result.exc = ""
        /\ resp[1].socket = 0
        /\ sockets[1].closed

\* the body accesses made so far
Accessed == usage \cap {"content", "text"}

\* C8: once content was obtained, text raises RuntimeError; once text was
\* obtained, content raises RuntimeError; and repeating the access that was
\* cached returns the cached value and leaves the response and the transport
\* as they are.
C8_CacheExclusive ==
    [][Direct => \A r \in Held :
        LET c == resp[r].cached
            kept == UNCHANGED <<resp, sockets, stack>>
            first(op) == Accessed = {op} /\ c # NoneValue
        IN  /\ (text /\ (first("content") \/ c.kind = "bytes")) =>
                   result' = [op |-> "text", self |-> r, exc |-> "RuntimeError",
                              val |-> None] /\ kept
            /\ (content /\ (first("text") \/ c.kind = "str")) =>
                   result' = [op |-> "content", self |-> r, exc |-> "RuntimeError",
                              val |-> None] /\ kept
            /\ (content /\ first("content")) =>
                   result' = [op |-> "content", self |-> r, exc |-> "", val |-> c.val]
                   /\ kept
            /\ (text /\ first("text")) =>
                   result' = [op |-> "text", self |-> r, exc |-> "", val |-> c.val]
                   /\ kept
      ]_vars

\* C8 is exercised: text was obtained (a non-empty body), then content was
\* asked for and refused
C8_Witness ==
    /\ Direct /\ Idle /\ Accessed = {"content", "text"}
    /\ result.op = "content" /\ result.exc = "RuntimeError"
    /\ resp[1].cached.kind = "str" /\ resp[1].cached.val # <<>>

----------------------------------------------------------------------------
(* Properties of the receive buffer *)

\* the bytes of the stream that no reader has been given yet: those the buffer
\* holds followed by those the transport still has
Unread(r) ==
    LET R == resp[r]
        valid == IF stack # <<>> /\ Top.fn = "_readto" /\ Top.pc # "entry"
                 THEN Top.end ELSE R.received_length
    IN  Slice(R.receive_buffer, 0, valid) \o sockets[R.socket].wire

\* delimiter d stands at (0-based) position i of seq
Occurs(seq, d, i) ==
    /\ d # <<>>
    /\ i + Len(d) <= Len(seq)
    /\ \A j \in 1..Len(d) : seq[i + j] = d[j]

\* the positions of seq at which one of the two delimiters stands
Hits(seq, first, second) ==
    {i \in 0..Len(seq) : Occurs(seq, first, i) \/ Occurs(seq, second, i)}

ToSkip(f, buflen) ==
    IF f.pc = "start" THEN f.nbytes
    ELSE IF f.pc = "bulk" THEN f.count * buflen + f.remaining
    ELSE f.remaining

\* C18: _throw_away(n) skips exactly n bytes of the unread stream, whatever
\* part of them is in the buffer and however the transport fragments the
\* rest: every step of it removes from the front of the unread stream as
\* many bytes as it takes off what is still to skip, and it returns when
\* nothing is left to skip.
C18_ThrowAwayExact ==
    [][(stack # <<>> /\ Top.fn = "_throw_away") =>
        LET r == Top.self
            rest == Unread(r)
            buflen == Len(resp[r].receive_buffer)
            left == IF Len(stack') < Len(stack) THEN 0
                    ELSE ToSkip(stack'[Len(stack')], buflen)
            skipped == ToSkip(Top, buflen) - left
        IN  /\ skipped \in 0..Len(rest)
            /\ Unread(r)' = SubSeq(rest, skipped + 1, Len(rest))
      ]_vars

\* C19: closed is absorbing. close() ends with the socket reference cleared
\* and it stays cleared; on a closed response _readinto raises RuntimeError
\* and close() returns at once, and no step made on a closed response takes a
\* byte from a transport, closes one, or changes the pool (the socket is not
\* released a second time).
C19_ClosedAbsorbing ==
    [][/\ \A r \in DOMAIN resp : resp[r].socket = 0 => resp'[r].socket = 0
       /\ (At("close", "release") /\ (IF Rest = <<>> THEN result'.exc = "" ELSE stack' # <<>>))
              => resp'[Top.self].socket = 0
       /\ (stack # <<>> /\ Top.self # 0 /\ resp[Top.self].socket = 0) =>
              /\ sockets' = sockets
              /\ socket_free' = socket_free
              /\ open_sockets' = open_sockets
              /\ At("_readinto", "start") =>
                    stack' = <<>> /\ result'.exc = "RuntimeError"
              /\ At("close", "start") => stack' = Rest
      ]_vars

\* C19 is exercised: a response of a Session was closed, its socket is free in
\* the pool, and a body read made on it afterwards raised RuntimeError
C19_Witness ==
    /\ ~Direct /\ Idle
    /\ result.op = "iter_content" /\ result.exc = "RuntimeError"
    /\ resp[result.self].held /\ resp[result.self].socket = 0
    /\ Free # {}

\* _readinto has returned 0 to iter_content, which goes on to close the
\* response (line 339)
BodyEnded ==
    \E i \in DOMAIN stack : stack[i].fn = "iter_content" /\ stack[i].pc = "closed"

\* C20: for a chunked response, once the zero-size chunk and the trailer block
\* were parsed and _readinto has returned 0, the close() that follows takes no
\* byte from the receive buffer or from the transport, whatever the trailer
\* lines are named.
C20_EndAbsorbing ==
    [][(Direct /\ scen.framing = "chunked" /\ BodyEnded) =>
            /\ sockets'[1].wire = sockets[1].wire
            /\ resp'[1].received_length = resp[1].received_length
      ]_vars

----------------------------------------------------------------------------
(* Properties of the Session's socket pool *)

\* C9: when two consecutive acquisitions name the same (host, port, proto),
\* the first returned a socket and that socket is free when the second starts
\* (its response was closed), the second returns the same socket and creates
\* none.
C9_PoolReuse ==
    \A i \in 1..(Len(acquired) - 1) :
        LET a == acquired[i]
            b == acquired[i + 1]
        IN  (a.exc = "" /\ b.key = a.key /\ a.sock \in b.free) =>
                /\ b.exc = ""
                /\ b.sock = a.sock
                /\ b.created = 0

\* C10: when _get_socket's first connect raises MemoryError while some socket
\* of the pool is free, every free socket is closed and is in neither map
\* afterwards, exactly one more socket is created and connected; if that
\* connect succeeds the new socket is what the request goes on with (busy), and
\* if it fails MemoryError reaches the caller.
C10_EvictAndRetry ==
    [][request_get_socket =>
        LET n1 == Len(sockets) + 1
            n2 == n1 + 1
            failed == Len(sockets') >= n1 /\ ~sockets'[n1].connected
        IN  (failed /\ Free # {}) =>
                /\ \A s \in Free :
                      /\ sockets'[s].closed
                      /\ s \notin DOMAIN socket_free'
                      /\ \A k \in DOMAIN open_sockets' : open_sockets'[k] # s
                /\ Len(sockets') = n2
                /\ IF sockets'[n2].connected
                   THEN /\ stack' # <<>>
                        /\ resp'[Len(resp')].socket = n2
                        /\ socket_free'[n2] = FALSE
                   ELSE /\ stack' = <<>>
                        /\ result'.op = "request" /\ result'.exc = "MemoryError"
      ]_vars

\* C10 is exercised: a connect failed while a socket was free, that socket was
\* evicted, and the retry gave the socket the request went on with
C10_Witness ==
    \E i \in DOMAIN acquired :
        /\ acquired[i].free # {} /\ acquired[i].created = 2 /\ acquired[i].exc = ""
        /\ ~sockets[acquired[i].sock - 1].connected
        /\ \A s \in acquired[i].free : sockets[s].closed /\ s \notin DOMAIN socket_free

\* C11: when _get_socket's first connect raises MemoryError while no socket of
\* the pool is free (the pool is empty or all its sockets are busy), the
\* MemoryError reaches the caller at once: no second socket is created and
\* no second connect is made.
C11_NoFreeNoRetry ==
    [][request_get_socket =>
        LET n1 == Len(sockets) + 1
            failed == Len(sockets') >= n1 /\ ~sockets'[n1].connected
        IN  (failed /\ Free = {}) =>
                /\ Len(sockets') = n1
                /\ stack' = <<>>
                /\ result'.op = "request" /\ result'.exc = "MemoryError"
      ]_vars

\* C12: whenever _get_socket returns a socket it has just created, on the
\* first connect or on the retry after an eviction, _open_sockets holds that
\* socket under the requested key and under no other, and _socket_free marks
\* it busy.
C12_NewHandleRecorded ==
    [][request_get_socket =>
        LET s == Len(sockets')
        IN  (stack' # <<>> /\ Len(sockets') > Len(sockets)) =>
                /\ resp'[Len(resp')].socket = s
                /\ Top.key \in DOMAIN open_sockets'
                /\ open_sockets'[Top.key] = s
                /\ \A k \in DOMAIN open_sockets' : open_sockets'[k] = s => k = Top.key
                /\ s \in DOMAIN socket_free' /\ ~socket_free'[s]
      ]_vars

\* C13: free_socket(s), called by close() of a Session's response or by the
\* caller, marks s free and changes nothing else of the pool when s is a value
\* of _open_sockets; when s is held under no key it raises RuntimeError and
\* leaves both maps as they were.
C13_Release ==
    [][(\/ result'.op = "free_socket" /\ Session_free_socket
        \/ close_release /\ resp[Top.self].session # 0) =>
        LET s == IF Idle THEN result'.self ELSE resp[Top.self].socket
            raised == IF Idle THEN result'.exc = "RuntimeError"
                      ELSE /\ stack' = <<>> /\ result'.exc = "RuntimeError"
                           /\ resp'[Top.self].socket = s
        IN  IF \E k \in DOMAIN open_sockets : open_sockets[k] = s
            THEN /\ socket_free' = [socket_free EXCEPT ![s] = TRUE]
                 /\ open_sockets' = open_sockets
                 /\ ~raised
            ELSE /\ raised
                 /\ socket_free' = socket_free
                 /\ open_sockets' = open_sockets
      ]_vars

\* C13 is exercised: a busy socket of the pool was released and is free, and the
\* release of a socket that is in the pool under no key was refused
C13_Witness ==
    /\ result.op = "free_socket" /\ result.exc = "RuntimeError"
    /\ result.self \in DOMAIN socket_free
    /\ \E i \in DOMAIN acquired :
         /\ acquired[i].exc = ""
         /\ acquired[i].sock \in Free

\* C14: in every state a Session reaches by requests (answered, failing while
\* the Response is constructed, refused as redirects, or failing to connect),
\* body reads and closes, the sockets that are values of _open_sockets are
\* exactly the sockets that are keys of _socket_free.
C14_MapsAgree ==
    {open_sockets[k] : k \in DOMAIN open_sockets} = DOMAIN socket_free

\* C15: between two calls, every socket that is a value of _open_sockets is
\* either free and read by no open response, or busy and read by exactly one
\* open response; no socket stays busy without a response after a request
\* that failed while the Response was constructed or was refused as a redirect.
C15_Ownership ==
    Idle =>
        \A s \in DOMAIN socket_free :
            Tracked(s) =>
                LET owners == {r \in Held : resp[r].socket = s}
                IN  IF socket_free[s] THEN owners = {} ELSE Cardinality(owners) = 1

\* C16: when request() reaches _get_socket and the Session still has a previous
\* response, that response is closed by then: its socket reference is
\* cleared, its socket is released to the pool, and every byte of its answer
\* was taken from the socket, before a socket is acquired and the new request
\* is sent on it.
C16_PreviousClosedFirst ==
    [][request_get_socket =>
        (last_response # 0 =>
            LET s == acquired[Len(acquired)].sock
            IN  /\ resp[last_response].socket = 0
                /\ s \in DOMAIN socket_free /\ socket_free[s]
                /\ sockets[s].wire = <<>>)
      ]_vars

\* C21: a socket that _get_socket returns for (host, port, proto), created or
\* reused, is a socket that was connected to that (host, port): the pool never
\* hands out for one destination a socket connected to another.
C21_SameDestination ==
    \A i \in DOMAIN acquired :
        acquired[i].exc = "" =>
            sockets[acquired[i].sock].peer = <<acquired[i].key[1], acquired[i].key[2]>>

============================================================================
